---- MODULE Spec2Model ----
(***************************************************************************)
(* Model of src/model/guild/emoji.rs: the Emoji record, the owner lookup   *)
(* find_guild_id over the shared guild cache, delete and edit through the  *)
(* HTTP gateway, and the Display formatter.                                *)
(*                                                                         *)
(* Strings are sequences of one-character strings, so that formatting is   *)
(* modelled by the characters it writes.                                   *)
(***************************************************************************)
EXTENDS Integers, Sequences, FiniteSets, TLC

\* ---------------------------------------------------------------- bounds

\* Invocations (find_guild_id, delete, edit) the tasks may start in all.
MaxCalls == 2

\* ------------------------------------------------------------ value sets

Tasks == {"t1", "t2"}
GuildIds == {41, 42}
EmojiIds == {7, 8}
\* Emoji ids the cache collaborator hears of.
CachedIds == {7}

blobface == <<"b", "l", "o", "b", "f", "a", "c", "e">>
blobcry == <<"b", "l", "o", "b", "c", "r", "y">>
Names == {blobface, blobcry}
\* Values of the `name` argument callers pass to edit.
NewNames == {blobcry}

\* Option<GuildId>: None, Some(g)
None == <<>>
Some(g) == <<g>>
\* Error::Model(ModelError::ItemMissing)
ItemMissing == "ItemMissing"
\* Errors the HTTP layer can surface (Error::Http, Error::Json, ...).
GatewayErrors == {"Unauthorized", "RateLimited"}
NoResult == "NoResult"
NoReply == [kind |-> "none"]

\* struct Emoji
Emoji(a, i, n, m, rc, r) ==
    [animated |-> a, id |-> i, name |-> n, managed |-> m,
     require_colons |-> rc, roles |-> r]

\* The record the doc examples deserialize (with the id and name given).
Plain(i, n) == Emoji(FALSE, i, n, FALSE, FALSE, <<>>)

\* Records a task may hold when the model starts.
InitEmojis == {Plain(7, blobface)}

\* Records the gateway may answer an edit of (id, name) with: the edited
\* record, or that record as the server changed it on its own: another
\* id, another name, other roles, or the three flags set.
EditReplies(i, n) ==
    LET base == Plain(i, n) IN
    { base,
      [base EXCEPT !.id = CHOOSE j \in EmojiIds : j # i],
      [base EXCEPT !.name = CHOOSE x \in Names : x # n],
      [base EXCEPT !.roles = <<5>>],
      [base EXCEPT !.animated = TRUE, !.managed = TRUE,
                   !.require_colons = TRUE] }

\* ----------------------------------------------------------------- state

VARIABLES
    emoji,      \* emoji[t]: the Emoji record task t holds (self)
    guilds,     \* Cache.guilds: guild id -> [id, emojis: emoji id -> Emoji]
    readers,    \* tasks holding the read guard of Cache.guilds
    writer,     \* TRUE while the cache collaborator holds the write guard
    pc,         \* position of each task in its invocation
    op,         \* "find", "delete" or "edit": the method the task runs
    arg,        \* the `name` argument of edit
    cache,      \* TRUE iff cache_http.cache() gave Some in this invocation
    visited,    \* guild keys the values() iterator has yielded so far, in order
    found,      \* value find_guild_id returned
    http,       \* requests the task issued to the gateway in this invocation
    reply,      \* what the gateway answered to the task's request
    result,     \* value returned to the caller
    pre,        \* the task's record when the invocation started
    owners,     \* guilds whose emoji map held the id when the guard was taken
    calls,      \* invocations started so far
    last,       \* how the task's previous invocation ended
    fmt_self,   \* the record Display::fmt is formatting
    fmt_buf,    \* characters written to the Formatter so far
    fmt_pc,     \* position in Display::fmt ("off": no formatting under way)
    url_out     \* String returned by url() for fmt_self; <<>> before the call

mainvars == <<emoji, guilds, readers, writer, pc, op, arg, cache, visited,
              found, http, reply, result, pre, owners, calls, last>>
fmtvars == <<fmt_self, fmt_buf, fmt_pc, url_out>>
vars == <<mainvars, fmtvars>>

\* Guild keys of `gs` whose emoji map contains emoji id `e`.
Owners(gs, e) == {k \in DOMAIN gs : e \in DOMAIN gs[k].emojis}

\* HashMap::new()
EmptyMap == [x \in {} |-> x]

\* Guild with no emojis.
EmptyGuild(g) == [id |-> g, emojis |-> EmptyMap]

\* emojis.insert(e.id, e)
MapInsert(m, k, v) == [x \in (DOMAIN m) \cup {k} |-> IF x = k THEN v ELSE m[x]]
\* map.remove(k)
MapRemove(m, k) == [x \in (DOMAIN m) \ {k} |-> m[x]]

InitMain ==
    /\ emoji \in [Tasks -> InitEmojis]
    /\ guilds = [g \in GuildIds |->
                   IF g = 42
                       THEN [id |-> g, emojis |-> MapInsert(EmptyMap, 7, Plain(7, blobface))]
                       ELSE EmptyGuild(g)]
    /\ readers = {}
    /\ writer = FALSE
    /\ pc = [t \in Tasks |-> "idle"]
    /\ op = [t \in Tasks |-> "find"]
    /\ arg = [t \in Tasks |-> <<>>]
    /\ cache = [t \in Tasks |-> TRUE]
    /\ visited = [t \in Tasks |-> <<>>]
    /\ found = [t \in Tasks |-> None]
    /\ http = [t \in Tasks |-> <<>>]
    /\ reply = [t \in Tasks |-> NoReply]
    /\ result = [t \in Tasks |-> NoResult]
    /\ pre = emoji
    /\ owners = [t \in Tasks |-> {}]
    /\ calls = 0
    /\ last = [t \in Tasks |-> "none"]

Init ==
    /\ InitMain
    /\ fmt_self = Plain(7, blobface)
    /\ fmt_buf = <<>>
    /\ fmt_pc = "off"
    /\ url_out = <<>>

\* ------------------------------------------------------------ invocation

\* State of task t's invocation record between two invocations.
Fresh(t) ==
    /\ op' = [op EXCEPT ![t] = "find"]
    /\ arg' = [arg EXCEPT ![t] = <<>>]
    /\ cache' = [cache EXCEPT ![t] = TRUE]
    /\ visited' = [visited EXCEPT ![t] = <<>>]
    /\ found' = [found EXCEPT ![t] = None]
    /\ http' = [http EXCEPT ![t] = <<>>]
    /\ reply' = [reply EXCEPT ![t] = NoReply]
    /\ result' = [result EXCEPT ![t] = NoResult]
    /\ pre' = [pre EXCEPT ![t] = emoji[t]]
    /\ owners' = [owners EXCEPT ![t] = {}]

\* Variant of cache_ok_or that goes on to the lookup without a cache.
cache_ok_or_ignored(c) == "read"

\* `cache_http.cache().ok_or(Error::Model(ModelError::ItemMissing))?`:
\* where the task goes on with the Option `c`.
cache_ok_or(c) == IF c THEN "read" ELSE "done"

\* Variant of Enter that keeps failing after an Err(ItemMissing).
Enter_latched(t, o, n, c) ==
    /\ pc[t] = "idle"
    /\ calls < MaxCalls
    /\ calls' = calls + 1
    /\ op' = [op EXCEPT ![t] = o]
    /\ arg' = [arg EXCEPT ![t] = n]
    /\ cache' = [cache EXCEPT ![t] = c]
    /\ pre' = [pre EXCEPT ![t] = emoji[t]]
    /\ pc' = [pc EXCEPT ![t] = IF last[t] = "missing" THEN "done" ELSE cache_ok_or(c)]
    /\ result' = [result EXCEPT ![t] =
                     IF last[t] = "missing" \/ cache_ok_or(c) = "done"
                         THEN ItemMissing ELSE NoResult]
    /\ UNCHANGED <<emoji, guilds, readers, writer, visited, found, http,
                   reply, owners, last, fmtvars>>

\* Entry of delete (o = "delete") or edit (o = "edit") with argument n,
\* where cache_http.cache() gives Some iff c.
Enter(t, o, n, c) ==
    /\ pc[t] = "idle"
    /\ calls < MaxCalls
    /\ calls' = calls + 1
    /\ op' = [op EXCEPT ![t] = o]
    /\ arg' = [arg EXCEPT ![t] = n]
    /\ cache' = [cache EXCEPT ![t] = c]
    /\ pre' = [pre EXCEPT ![t] = emoji[t]]
    /\ pc' = [pc EXCEPT ![t] = cache_ok_or(c)]
    /\ result' = [result EXCEPT ![t] = IF cache_ok_or(c) = "done" THEN ItemMissing ELSE NoResult]
    /\ UNCHANGED <<emoji, guilds, readers, writer, visited, found, http,
                   reply, owners, last, fmtvars>>

\* pub async fn delete(&self, cache_http) up to the first await
delete(t) ==
    /\ pc[t] = "idle"
    /\ \E c \in BOOLEAN : Enter(t, "delete", <<>>, c)

\* pub async fn edit(&mut self, cache_http, name) up to the first await
edit(t) ==
    /\ pc[t] = "idle"
    /\ \E n \in NewNames : \E c \in BOOLEAN : Enter(t, "edit", n, c)

\* pub async fn find_guild_id(&self, cache) called by the task itself
find_guild_id(t) ==
    /\ pc[t] = "idle"
    /\ Enter(t, "find", <<>>, TRUE)

\* ---------------------------------------------------------- the lookup

\* Variant of guilds_read that iterates the map without holding a guard.
guilds_read_unguarded(t) ==
    /\ pc[t] = "read"
    /\ ~writer
    /\ visited' = [visited EXCEPT ![t] = <<>>]
    /\ owners' = [owners EXCEPT ![t] = Owners(guilds, emoji[t].id)]
    /\ pc' = [pc EXCEPT ![t] = "scan"]
    /\ UNCHANGED <<emoji, guilds, readers, writer, op, arg, cache, found, http,
                   reply, result, pre, calls, last, fmtvars>>

\* `cache.as_ref().guilds.read().await`: the read guard is granted when no
\* writer holds the lock; other readers do not exclude it.
guilds_read(t) ==
    /\ pc[t] = "read"
    /\ ~writer
    /\ readers' = readers \cup {t}
    /\ visited' = [visited EXCEPT ![t] = <<>>]
    /\ owners' = [owners EXCEPT ![t] = Owners(guilds, emoji[t].id)]
    /\ pc' = [pc EXCEPT ![t] = "scan"]
    /\ UNCHANGED <<emoji, guilds, writer, op, arg, cache, found, http,
                   reply, result, pre, calls, last, fmtvars>>

\* Variant of contains_key that accepts every guild.
contains_key_any(m, k) == TRUE

\* guild.emojis.contains_key(&self.id)
contains_key(m, k) == k \in DOMAIN m

\* Where a task goes when find_guild_id returns: to its caller when it was
\* called directly, back into delete or edit otherwise.
AfterFind(t) == IF op[t] = "find" THEN "done" ELSE "matched"

\* Variant of FindReturn that keeps the read guard after the return.
FindReturn_guard_kept(t, v) ==
    /\ found' = [found EXCEPT ![t] = v]
    /\ visited' = [visited EXCEPT ![t] = <<>>]
    /\ readers' = readers
    /\ pc' = [pc EXCEPT ![t] = AfterFind(t)]
    /\ result' = [result EXCEPT ![t] =
                     IF op[t] # "find" THEN NoResult
                     ELSE IF v = None THEN "None" ELSE "Some"]

\* find_guild_id returns v: the read guard, a temporary of the for
\* statement, is dropped.
FindReturn(t, v) ==
    /\ found' = [found EXCEPT ![t] = v]
    /\ visited' = [visited EXCEPT ![t] = <<>>]
    /\ readers' = readers \ {t}
    /\ pc' = [pc EXCEPT ![t] = AfterFind(t)]
    /\ result' = [result EXCEPT ![t] =
                     IF op[t] # "find" THEN NoResult
                     ELSE IF v = None THEN "None" ELSE "Some"]

\* Elements of a sequence.
Range(q) == {q[i] : i \in 1..Len(q)}

\* Guild keys the values() iterator of task t has still to yield.
Remaining(t) == (DOMAIN guilds) \ Range(visited[t])

\* Variant of scan_next whose iterator may yield a guild again.
scan_next_again(t) ==
    /\ pc[t] = "scan"
    /\ \E k \in DOMAIN guilds :
          IF contains_key(guilds[k].emojis, emoji[t].id)
              THEN FindReturn(t, Some(guilds[k].id))
              ELSE /\ visited' = [visited EXCEPT ![t] = Append(@, k)]
                   /\ UNCHANGED <<found, readers, pc, result>>
    /\ UNCHANGED <<emoji, guilds, writer, op, arg, cache, http, reply, pre,
                   owners, calls, last, fmtvars>>

\* Variant of scan_next that gives the guard back between two entries.
scan_next_unlocked(t) ==
    /\ pc[t] = "scan"
    /\ \E k \in Remaining(t) :
          IF contains_key(guilds[k].emojis, emoji[t].id)
              THEN FindReturn(t, Some(guilds[k].id))
              ELSE /\ visited' = [visited EXCEPT ![t] = Append(@, k)]
                   /\ readers' = readers \ {t}
                   /\ UNCHANGED <<found, pc, result>>
    /\ UNCHANGED <<emoji, guilds, writer, op, arg, cache, http, reply, pre,
                   owners, calls, last, fmtvars>>

\* One turn of `for guild in ....values()`: the iterator yields a guild it
\* has not yielded yet, in no fixed order; `return Some(guild.id)` when the
\* guild's emoji map has the key.
scan_next(t) ==
    /\ pc[t] = "scan"
    /\ \E k \in Remaining(t) :
          IF contains_key(guilds[k].emojis, emoji[t].id)
              THEN FindReturn(t, Some(guilds[k].id))
              ELSE /\ visited' = [visited EXCEPT ![t] = Append(@, k)]
                   /\ UNCHANGED <<found, readers, pc, result>>
    /\ UNCHANGED <<emoji, guilds, writer, op, arg, cache, http, reply, pre,
                   owners, calls, last, fmtvars>>

\* Variant of scan_end that falls back to some cached guild.
scan_end_fallback(t) ==
    /\ pc[t] = "scan"
    /\ Remaining(t) = {}
    /\ FindReturn(t, IF DOMAIN guilds = {} THEN None
                     ELSE Some(CHOOSE g \in DOMAIN guilds : TRUE))
    /\ UNCHANGED <<emoji, guilds, writer, op, arg, cache, http, reply, pre,
                   owners, calls, last, fmtvars>>

\* Variant of scan_end that starts the scan over instead of returning None.
scan_end_spin(t) ==
    /\ pc[t] = "scan"
    /\ Remaining(t) = {}
    /\ visited' = [visited EXCEPT ![t] = <<>>]
    /\ UNCHANGED <<emoji, guilds, readers, writer, pc, op, arg, cache, found,
                   http, reply, result, pre, owners, calls, last, fmtvars>>

\* The iterator is exhausted: the loop ends and find_guild_id returns None.
scan_end(t) ==
    /\ pc[t] = "scan"
    /\ Remaining(t) = {}
    /\ FindReturn(t, None)
    /\ UNCHANGED <<emoji, guilds, writer, op, arg, cache, http, reply, pre,
                   owners, calls, last, fmtvars>>

\* ------------------------------------------------- delete and edit, match

\* `Some(guild_id) =>` arm of the match on find_guild_id's value
is_some(v) == v # None

\* Variant of edit_map that sends the role list along with the name.
edit_map_with_roles(n) == [name |-> n, roles |-> <<>>]

\* json!({ "name": name })
edit_map(n) == [name |-> n]

\* http.delete_emoji(guild_id.0, self.id.0)
delete_request(g, self) ==
    [method |-> "delete_emoji", guild_id |-> g, emoji_id |-> self.id]

\* http.edit_emoji(guild_id.0, self.id.0, &map)
edit_request(g, self, n) ==
    [method |-> "edit_emoji", guild_id |-> g, emoji_id |-> self.id,
     map |-> edit_map(n)]

\* Variant of Match that fails locally once the record has been deleted.
Match_stale_checked(t, req) ==
    /\ pc[t] = "matched"
    /\ IF is_some(found[t]) /\ last[t] # "deleted"
          THEN /\ http' = [http EXCEPT ![t] = Append(@, req)]
               /\ pc' = [pc EXCEPT ![t] = "http"]
               /\ UNCHANGED result
          ELSE /\ result' = [result EXCEPT ![t] = ItemMissing]
               /\ pc' = [pc EXCEPT ![t] = "done"]
               /\ UNCHANGED http
    /\ UNCHANGED <<emoji, guilds, readers, writer, op, arg, cache, visited,
                   found, reply, pre, owners, calls, last, fmtvars>>

\* The match of delete / edit: the Some arm sends the request and awaits
\* the gateway; the None arm returns Err(ItemMissing).
Match(t, req) ==
    /\ pc[t] = "matched"
    /\ IF is_some(found[t])
          THEN /\ http' = [http EXCEPT ![t] = Append(@, req)]
               /\ pc' = [pc EXCEPT ![t] = "http"]
               /\ UNCHANGED result
          ELSE /\ result' = [result EXCEPT ![t] = ItemMissing]
               /\ pc' = [pc EXCEPT ![t] = "done"]
               /\ UNCHANGED http
    /\ UNCHANGED <<emoji, guilds, readers, writer, op, arg, cache, visited,
                   found, reply, pre, owners, calls, last, fmtvars>>

\* Variant of edit_match that writes the new name into the local record
\* before the gateway has answered.
edit_match_optimistic(t) ==
    /\ op[t] = "edit"
    /\ pc[t] = "matched"
    /\ IF is_some(found[t])
          THEN /\ http' = [http EXCEPT ![t] =
                              Append(@, edit_request(found[t][1], emoji[t], arg[t]))]
               /\ emoji' = [emoji EXCEPT ![t].name = arg[t]]
               /\ pc' = [pc EXCEPT ![t] = "http"]
               /\ UNCHANGED result
          ELSE /\ result' = [result EXCEPT ![t] = ItemMissing]
               /\ pc' = [pc EXCEPT ![t] = "done"]
               /\ UNCHANGED <<http, emoji>>
    /\ UNCHANGED <<guilds, readers, writer, op, arg, cache, visited, found,
                   reply, pre, owners, calls, last, fmtvars>>

delete_match(t) ==
    /\ op[t] = "delete"
    /\ Match(t, delete_request(found[t][1], emoji[t]))

edit_match(t) ==
    /\ op[t] = "edit"
    /\ Match(t, edit_request(found[t][1], emoji[t], arg[t]))

\* ------------------------------------------------------ gateway answers

OkUnit == [kind |-> "ok"]
OkEmoji(e) == [kind |-> "emoji", emoji |-> e]
Err(e) == [kind |-> "err", err |-> e]

\* Variant of delete_result that reports every gateway error as ItemMissing.
delete_result_missing(rep) == IF rep.kind = "err" THEN ItemMissing ELSE "Ok"

\* Result<()> that delete hands back: the gateway's own.
delete_result(rep) == IF rep.kind = "err" THEN rep.err ELSE "Ok"

\* Result<()> of edit: `?` hands the gateway's error back, else Ok(()).
edit_result(rep) == IF rep.kind = "err" THEN rep.err ELSE "Ok"

\* Variant of edit_self that merges the returned name into the old record.
edit_self_name_only(self, rep) ==
    IF rep.kind = "emoji" THEN [self EXCEPT !.name = rep.emoji.name] ELSE self

\* Variant of edit_self that keeps the old id whatever the gateway returned.
edit_self_keep_id(self, rep) ==
    IF rep.kind = "emoji" THEN [rep.emoji EXCEPT !.id = self.id] ELSE self

\* `*self = http.edit_emoji(..).await?`: the assignment happens only with
\* an Ok value, and replaces the whole record.
edit_self(self, rep) == IF rep.kind = "emoji" THEN rep.emoji ELSE self

\* Variant of delete_emoji that evicts the deleted emoji from the cached
\* guild once the gateway has confirmed.
delete_emoji_evict(t) ==
    /\ pc[t] = "http"
    /\ op[t] = "delete"
    /\ \E rep \in {OkUnit} \cup {Err(e) : e \in GatewayErrors} :
          /\ reply' = [reply EXCEPT ![t] = rep]
          /\ result' = [result EXCEPT ![t] = delete_result(rep)]
          /\ guilds' = IF rep.kind = "ok" /\ found[t][1] \in DOMAIN guilds
                           THEN [guilds EXCEPT ![found[t][1]].emojis =
                                    MapRemove(@, emoji[t].id)]
                           ELSE guilds
    /\ pc' = [pc EXCEPT ![t] = "done"]
    /\ UNCHANGED <<emoji, readers, writer, op, arg, cache, visited, found,
                   http, pre, owners, calls, last, fmtvars>>

\* The gateway answers the pending delete_emoji request.
delete_emoji(t) ==
    /\ pc[t] = "http"
    /\ op[t] = "delete"
    /\ \E rep \in {OkUnit} \cup {Err(e) : e \in GatewayErrors} :
          /\ reply' = [reply EXCEPT ![t] = rep]
          /\ result' = [result EXCEPT ![t] = delete_result(rep)]
    /\ pc' = [pc EXCEPT ![t] = "done"]
    /\ UNCHANGED <<emoji, guilds, readers, writer, op, arg, cache, visited,
                   found, http, pre, owners, calls, last, fmtvars>>

\* The gateway answers the pending edit_emoji request.
edit_emoji(t) ==
    /\ pc[t] = "http"
    /\ op[t] = "edit"
    /\ LET req == http[t][Len(http[t])] IN
       \E rep \in {OkEmoji(e) : e \in EditReplies(req.emoji_id, req.map.name)}
                    \cup {Err(e) : e \in GatewayErrors} :
          /\ reply' = [reply EXCEPT ![t] = rep]
          /\ emoji' = [emoji EXCEPT ![t] = edit_self(@, rep)]
          /\ result' = [result EXCEPT ![t] = edit_result(rep)]
    /\ pc' = [pc EXCEPT ![t] = "done"]
    /\ UNCHANGED <<guilds, readers, writer, op, arg, cache, visited, found,
                   http, pre, owners, calls, last, fmtvars>>

\* What the caller of delete or edit has seen when the invocation of task t
\* has returned: a delete the gateway accepted, an Err(ItemMissing), or
\* anything else.
Outcome(t) ==
    IF op[t] = "delete" /\ result[t] = "Ok" THEN "deleted"
    ELSE IF op[t] \in {"delete", "edit"} /\ result[t] = ItemMissing THEN "missing"
    ELSE "none"

\* The caller takes the returned value; the task is idle again.
Return(t) ==
    /\ pc[t] = "done"
    /\ pc' = [pc EXCEPT ![t] = "idle"]
    /\ Fresh(t)
    /\ last' = [last EXCEPT ![t] = Outcome(t)]
    /\ UNCHANGED <<emoji, guilds, readers, writer, calls, fmtvars>>

\* ------------------------------------------------- the cache collaborator

\* guilds.write().await: exclusive, granted when nobody holds the lock.
cache_write ==
    /\ ~writer
    /\ readers = {}
    /\ writer' = TRUE
    /\ UNCHANGED <<emoji, guilds, readers, pc, op, arg, cache, visited,
                   found, http, reply, result, pre, owners, calls, last, fmtvars>>

\* Updates the collaborator applies from its event stream.
CacheUpdates(gs) ==
    {[gs EXCEPT ![g].emojis = MapInsert(@, e, Plain(e, blobface))] :
        g \in DOMAIN gs, e \in CachedIds}
    \cup {[gs EXCEPT ![g].emojis = MapRemove(@, e)] :
        g \in DOMAIN gs, e \in CachedIds}
    \cup {MapRemove(gs, g) : g \in DOMAIN gs}
    \cup {MapInsert(gs, g, EmptyGuild(g)) : g \in GuildIds \ DOMAIN gs}

\* The collaborator changes the guild map under the write guard and drops it.
cache_update ==
    /\ writer
    /\ \E gs \in CacheUpdates(guilds) \ {guilds} : guilds' = gs
    /\ writer' = FALSE
    /\ UNCHANGED <<emoji, readers, pc, op, arg, cache, visited, found, http,
                   reply, result, pre, owners, calls, last, fmtvars>>

Next ==
    \/ \E t \in Tasks : delete(t)
    \/ \E t \in Tasks : edit(t)
    \/ \E t \in Tasks : find_guild_id(t)
    \/ \E t \in Tasks : guilds_read(t)
    \/ \E t \in Tasks : scan_next(t)
    \/ \E t \in Tasks : scan_end(t)
    \/ \E t \in Tasks : delete_match(t)
    \/ \E t \in Tasks : edit_match(t)
    \/ \E t \in Tasks : delete_emoji(t)
    \/ \E t \in Tasks : edit_emoji(t)
    \/ \E t \in Tasks : Return(t)
    \/ cache_write
    \/ cache_update

Spec == Init /\ [][Next]_vars

\* The same program under the scheduling the lookup and the gateway call
\* rely on: a task that can go on is polled again, the read guard is
\* granted to a task that keeps asking for it although writers come and go,
\* a writer gives the write guard back, and the gateway answers.
SpecLive ==
    /\ Init
    /\ [][Next]_vars
    /\ \A t \in Tasks :
          /\ SF_vars(guilds_read(t))
          /\ WF_vars(scan_next(t))
          /\ WF_vars(scan_end(t))
          /\ WF_vars(delete_match(t))
          /\ WF_vars(edit_match(t))
          /\ WF_vars(delete_emoji(t))
          /\ WF_vars(edit_emoji(t))
    /\ WF_vars(cache_update)

\* ------------------------------------------------------------ Display

Digits == <<"0", "1", "2", "3", "4", "5", "6", "7", "8", "9">>

\* Display for the u64 inside EmojiId: the decimal digits, most
\* significant first, no sign and no padding.
RECURSIVE Decimal(_)
Decimal(n) ==
    IF n < 10 THEN <<Digits[n + 1]>>
    ELSE Decimal(n \div 10) \o <<Digits[(n % 10) + 1]>>

\* f.write_str(s) on a Formatter over a String: appends, cannot fail.
write_str(buf, s) == buf \o s
\* FmtWrite::write_char(f, c)
write_char(buf, c) == Append(buf, c)

\* Variant of prefix that writes the plain prefix for every emoji.
prefix_plain(animated) == <<"<", ":">>

\* `if self.animated { "<a:" } else { "<:" }`
prefix(animated) == IF animated THEN <<"<", "a", ":">> ELSE <<"<", ":">>

\* Records handed to the formatter: every field varies, names include the
\* empty one and one made of the delimiters.
FmtIds == {0, 7, 10, 4096}
FmtNames == {<<>>, <<"a">>, blobface, <<":", ">", "<">>}
FmtEmojis ==
    {Emoji(a, i, n, m, rc, r) :
        a \in BOOLEAN, i \in FmtIds, n \in FmtNames, m \in BOOLEAN,
        rc \in BOOLEAN, r \in {<<>>, <<5, 5>>}}

InitFmt ==
    /\ InitMain
    /\ fmt_self \in FmtEmojis
    /\ fmt_buf = <<>>
    /\ fmt_pc = "prefix"
    /\ url_out = <<>>

FmtStep(from, to, buf) ==
    /\ fmt_pc = from
    /\ fmt_buf' = buf
    /\ fmt_pc' = to
    /\ UNCHANGED <<fmt_self, url_out, mainvars>>

\* f.write_str("<a:")? or f.write_str("<:")?
fmt_prefix ==
    /\ fmt_pc = "prefix"
    /\ FmtStep("prefix", "name", write_str(fmt_buf, prefix(fmt_self.animated)))
\* f.write_str(&self.name)?
fmt_name ==
    /\ fmt_pc = "name"
    /\ FmtStep("name", "colon", write_str(fmt_buf, fmt_self.name))
\* FmtWrite::write_char(f, ':')?
fmt_colon ==
    /\ fmt_pc = "colon"
    /\ FmtStep("colon", "id", write_char(fmt_buf, ":"))
\* Display::fmt(&self.id, f)?
fmt_id ==
    /\ fmt_pc = "id"
    /\ FmtStep("id", "close", write_str(fmt_buf, Decimal(fmt_self.id)))
\* FmtWrite::write_char(f, '>')
fmt_close ==
    /\ fmt_pc = "close"
    /\ FmtStep("close", "end", write_char(fmt_buf, ">"))

\* cdn!: the base the path is appended to.
CdnBase ==
    <<"h", "t", "t", "p", "s", ":", "/", "/", "c", "d", "n", ".",
      "d", "i", "s", "c", "o", "r", "d", "a", "p", "p", ".", "c", "o", "m">>

\* Variant of extension that names every image a png.
extension_png(animated) == <<"p", "n", "g">>

\* `let extension = if self.animated {"gif"} else {"png"};`
extension(animated) == IF animated THEN <<"g", "i", "f">> ELSE <<"p", "n", "g">>

\* format!(cdn!("/emojis/{}.{}"), self.id, extension)
format_url(self) ==
    CdnBase \o <<"/", "e", "m", "o", "j", "i", "s", "/">> \o Decimal(self.id)
        \o <<".">> \o extension(self.animated)

\* pub fn url(&self) -> String
url ==
    /\ fmt_pc # "off"
    /\ url_out = <<>>
    /\ url_out' = format_url(fmt_self)
    /\ UNCHANGED <<fmt_self, fmt_buf, fmt_pc, mainvars>>

NextFmt ==
    \/ fmt_prefix
    \/ fmt_name
    \/ fmt_colon
    \/ fmt_id
    \/ fmt_close
    \/ url

SpecFmt == InitFmt /\ [][NextFmt]_vars

\* ============================================================ properties

\* find_guild_id has returned to task t in the current invocation.
Looked(t) == pc[t] \in {"matched", "http"} \/ (pc[t] = "done" /\ cache[t])

\* Task t has returned from method o and its caller has not yet taken the value.
Finished(t, o) == pc[t] = "done" /\ op[t] = o

EmojiFields == {"animated", "id", "name", "managed", "require_colons", "roles"}

\* C1: when edit succeeds (the gateway returned a record R) the local record
\* equals R in every field, whatever the record held before, and edit
\* returns Ok; edit returns Ok only then.
EditSuccessReplacesRecord ==
    \A t \in Tasks :
        /\ (Finished(t, "edit") /\ reply[t].kind = "emoji") =>
              /\ result[t] = "Ok"
              /\ DOMAIN emoji[t] = EmojiFields
              /\ \A f \in EmojiFields : emoji[t][f] = reply[t].emoji[f]
        /\ (Finished(t, "edit") /\ result[t] = "Ok") => reply[t].kind = "emoji"

\* A successful edit whose reply changed `roles`, a field the request did
\* not carry; the local record has the reply's roles.
EditSuccessWithDrift ==
    \E t \in Tasks :
        /\ Finished(t, "edit")
        /\ result[t] = "Ok"
        /\ reply[t].emoji.roles # pre[t].roles
        /\ reply[t].emoji.name = arg[t]
        /\ emoji[t].roles = reply[t].emoji.roles
        /\ emoji[t].name # pre[t].name

\* C2: from the call of edit on, unless edit has returned Ok, the local
\* record is the record the call started with: an edit that fails, with
\* ItemMissing or with a gateway error, leaves it as it was and no
\* intermediate record is visible while the call runs.
EditFailureLeavesRecord ==
    \A t \in Tasks :
        (op[t] = "edit" /\ ~(pc[t] = "done" /\ result[t] = "Ok")) =>
            emoji[t] = pre[t]

\* An edit that sent its request and came back with the gateway's error.
EditGatewayError ==
    \E t \in Tasks :
        /\ Finished(t, "edit")
        /\ Len(http[t]) = 1
        /\ reply[t] = Err("Unauthorized")
        /\ result[t] = "Unauthorized"
        /\ emoji[t] = pre[t]

\* C3: an edit or delete that got no cache returns ItemMissing at once: it
\* never takes the lock or scans, and the gateway gets no request from it.
CacheUnavailableNoGateway ==
    \A t \in Tasks :
        ~cache[t] =>
            /\ op[t] \in {"delete", "edit"}
            /\ pc[t] = "done"
            /\ result[t] = ItemMissing
            /\ http[t] = <<>>
            /\ reply[t] = NoReply
            /\ t \notin readers

\* A delete and an edit that both returned for want of a cache.
BothWithoutCache ==
    \E t, u \in Tasks :
        /\ ~cache[t] /\ Finished(t, "delete") /\ result[t] = ItemMissing
        /\ ~cache[u] /\ Finished(u, "edit") /\ result[u] = ItemMissing

\* C4: with a cache, when no guild's emoji map held the record's id at the
\* lookup, edit and delete send nothing to the gateway and return
\* ItemMissing.
NoOwnerNoGateway ==
    \A t \in Tasks :
        (op[t] \in {"delete", "edit"} /\ Looked(t) /\ owners[t] = {}) =>
            /\ http[t] = <<>>
            /\ pc[t] # "http"
            /\ reply[t] = NoReply
            /\ pc[t] = "done" => result[t] = ItemMissing

\* A delete and an edit that both found no owner in a cache that has guilds.
BothWithoutOwner ==
    \E t, u \in Tasks :
        /\ Finished(t, "delete") /\ cache[t] /\ owners[t] = {}
        /\ Finished(u, "edit") /\ cache[u] /\ owners[u] = {}
        /\ result[t] = ItemMissing /\ result[u] = ItemMissing
        /\ DOMAIN guilds # {}

\* C5: when the lookup found a guild, delete and edit return what the
\* gateway answered: Ok iff the gateway succeeded, else the gateway's
\* error itself; never ItemMissing once a request was made.
GatewayOutcomeVerbatim ==
    \A t \in Tasks :
        /\ (pc[t] = "done" /\ op[t] \in {"delete", "edit"} /\ found[t] # None) =>
              /\ reply[t].kind \in
                    (IF op[t] = "delete" THEN {"ok", "err"} ELSE {"emoji", "err"})
              /\ (result[t] = "Ok") <=> (reply[t].kind # "err")
              /\ reply[t].kind = "err" => result[t] = reply[t].err
        /\ (pc[t] = "done" /\ http[t] # <<>>) => result[t] # ItemMissing

\* A delete and an edit, each returning the error the gateway gave it.
BothGatewayErrors ==
    \E t, u \in Tasks :
        /\ Finished(t, "delete") /\ reply[t] = Err("RateLimited")
        /\ result[t] = "RateLimited"
        /\ Finished(u, "edit") /\ reply[u] = Err("Unauthorized")
        /\ result[u] = "Unauthorized"

\* C6: an invocation sends at most one request, and exactly one when its
\* lookup found a guild, also when the gateway answered with an error; the
\* request names the guild that lookup returned and the id the record had
\* at the call, and an edit's payload is the new name alone.
OneRequestPerInvocation ==
    \A t \in Tasks :
        /\ Len(http[t]) <= 1
        /\ op[t] = "find" => http[t] = <<>>
        /\ (pc[t] = "done" /\ op[t] # "find" /\ found[t] # None) => Len(http[t]) = 1
        /\ Len(http[t]) = 1 =>
              LET req == http[t][1] IN
              /\ found[t] # None
              /\ req.guild_id = found[t][1]
              /\ req.emoji_id = pre[t].id
              /\ op[t] = "delete" =>
                    /\ req.method = "delete_emoji"
                    /\ DOMAIN req = {"method", "guild_id", "emoji_id"}
              /\ op[t] = "edit" =>
                    /\ req.method = "edit_emoji"
                    /\ DOMAIN req = {"method", "guild_id", "emoji_id", "map"}
                    /\ DOMAIN req.map = {"name"}
                    /\ req.map.name = arg[t]

\* An edit that got a gateway error and has sent its one request, for the
\* guild found and with the name alone.
OneEditRequestAfterError ==
    \E t \in Tasks :
        /\ Finished(t, "edit")
        /\ reply[t].kind = "err"
        /\ http[t] = <<[method |-> "edit_emoji", guild_id |-> 42, emoji_id |-> 7,
                        map |-> [name |-> blobcry]]>>

\* C7: find_guild_id returns the guild whose emoji map holds the id when
\* there is exactly one, None when there is none, never a guild whose map
\* lacks the id, and its value is always Some or None.
FindGuildIdCorrect ==
    \A t \in Tasks :
        /\ Looked(t) =>
              /\ \A g \in GuildIds : owners[t] = {g} => found[t] = Some(g)
              /\ owners[t] = {} => found[t] = None
              /\ found[t] # None => found[t][1] \in owners[t]
        /\ Finished(t, "find") =>
              result[t] = (IF found[t] = None THEN "None" ELSE "Some")

\* Two lookups that returned: one the only owner, one None although the
\* cache has a guild.
FindUniqueAndNone ==
    \E t, u \in Tasks :
        /\ Finished(t, "find") /\ owners[t] = {42} /\ found[t] = Some(42)
        /\ Finished(u, "find") /\ owners[u] = {} /\ found[u] = None
        /\ DOMAIN guilds # {}

\* C8 as stated: whatever was called, every record has the id it was
\* created with.
IdImmutable ==
    \A t \in Tasks : emoji[t].id \in {e.id : e \in InitEmojis}

\* C8 amended: an invocation changes the id only by a successful edit, and
\* then to the id of the record the gateway returned; find_guild_id, delete
\* and a failed edit leave it.
IdFollowsGateway ==
    \A t \in Tasks :
        emoji[t].id =
            IF Finished(t, "edit") /\ reply[t].kind = "emoji"
                THEN reply[t].emoji.id
                ELSE pre[t].id

\* A successful edit after which the record has another id than before.
IdReplaced ==
    \E t \in Tasks :
        /\ Finished(t, "edit")
        /\ result[t] = "Ok"
        /\ emoji[t].id # pre[t].id
        /\ emoji[t].id = reply[t].emoji.id

\* C9: the guild map changes only in a step of the cache collaborator
\* holding the write guard, in which no task moves and no record changes;
\* so no step of find_guild_id, delete or edit changes it. A task running
\* delete keeps its record as it is.
CacheReadOnly ==
    [][ /\ guilds' # guilds =>
              (writer /\ ~writer' /\ pc' = pc /\ emoji' = emoji)
        /\ \A t \in Tasks :
              (op[t] = "delete" \/ op'[t] = "delete") => emoji'[t] = emoji[t]
      ]_vars

\* A delete the gateway confirmed, with the emoji still in the map of the
\* guild it was deleted from and the local record as before.
DeletedStillCached ==
    \E t \in Tasks :
        /\ Finished(t, "delete")
        /\ result[t] = "Ok"
        /\ found[t] = Some(42)
        /\ 42 \in Owners(guilds, emoji[t].id)
        /\ guilds[42].emojis[emoji[t].id] = Plain(7, blobface)
        /\ emoji[t] = pre[t]

\* Value of a sequence of decimal digits.
RECURSIVE DigitsValue(_)
DigitsValue(ds) ==
    IF ds = <<>> THEN 0
    ELSE 10 * DigitsValue(SubSeq(ds, 1, Len(ds) - 1))
         + (CHOOSE d \in 0..9 : Digits[d + 1] = ds[Len(ds)])

\* C10: the text Display::fmt writes is "<", then "a:" for an animated
\* emoji and ":" otherwise, the name as it is, ":", the id in decimal and
\* ">"; formatting goes through to the end for every record, and the text
\* is fixed by animated, name and id.
MentionFormat ==
    /\ fmt_pc \in {"prefix", "name", "colon", "id", "close"} => ENABLED NextFmt
    /\ fmt_pc = "end" =>
          LET s == fmt_buf
              p == IF fmt_self.animated THEN 3 ELSE 2
              n == Len(fmt_self.name)
              ds == SubSeq(s, p + n + 2, Len(s) - 1)
          IN  /\ Len(s) >= p + n + 3
              /\ s[1] = "<"
              /\ IF fmt_self.animated THEN s[2] = "a" /\ s[3] = ":" ELSE s[2] = ":"
              /\ SubSeq(s, p + 1, p + n) = fmt_self.name
              /\ s[p + n + 1] = ":"
              /\ Len(ds) >= 1
              /\ \A i \in 1..Len(ds) : \E d \in 0..9 : ds[i] = Digits[d + 1]
              /\ Len(ds) > 1 => ds[1] # "0"
              /\ DigitsValue(ds) = fmt_self.id
              /\ s[Len(s)] = ">"

\* An animated, managed emoji with roles and a name made of delimiters,
\* formatted to the end.
MentionAnimatedOddName ==
    /\ fmt_pc = "end"
    /\ fmt_self = Emoji(TRUE, 4096, <<":", ">", "<">>, TRUE, TRUE, <<5, 5>>)
    /\ fmt_buf = <<"<", "a", ":", ":", ">", "<", ":", "4", "0", "9", "6", ">">>

\* C11: the String url() returns is the CDN base, "/emojis/", the id in
\* decimal, "." and "gif" for an animated emoji, "png" for any other; it
\* is fixed by id and animated.
UrlFormat ==
    url_out # <<>> =>
        LET s == url_out
            b == Len(CdnBase)
            ext == SubSeq(s, Len(s) - 2, Len(s))
            ds == SubSeq(s, b + 9, Len(s) - 4)
        IN  /\ Len(s) >= b + 13
            /\ SubSeq(s, 1, b) = CdnBase
            /\ SubSeq(s, b + 1, b + 8) = <<"/", "e", "m", "o", "j", "i", "s", "/">>
            /\ \A i \in 1..Len(ds) : \E d \in 0..9 : ds[i] = Digits[d + 1]
            /\ Len(ds) > 1 => ds[1] # "0"
            /\ DigitsValue(ds) = fmt_self.id
            /\ s[Len(s) - 3] = "."
            /\ ext = <<"g", "i", "f">> <=> fmt_self.animated
            /\ ext = <<"p", "n", "g">> <=> ~fmt_self.animated

\* The URL of an animated, managed emoji with roles and an odd name.
UrlAnimated ==
    /\ fmt_self = Emoji(TRUE, 4096, <<":", ">", "<">>, TRUE, TRUE, <<5, 5>>)
    /\ url_out = CdnBase \o <<"/", "e", "m", "o", "j", "i", "s", "/",
                              "4", "0", "9", "6", ".", "g", "i", "f">>

\* C12: when two or more guilds held the id as the lookup took the guard,
\* find_guild_id returns one of them and not None; the guild it returns is
\* the first the iterator yields that holds the id (every guild yielded
\* before lacks it), and no guild is yielded, and so tested, twice.
FirstOwnerVisited ==
    /\ [](\A t \in Tasks :
            /\ (Looked(t) /\ Cardinality(owners[t]) >= 2) =>
                  (found[t] # None /\ found[t][1] \in owners[t])
            /\ pc[t] = "scan" =>
                  /\ Range(visited[t]) \subseteq DOMAIN guilds
                  /\ Range(visited[t]) \cap owners[t] = {}
                  /\ \A i, j \in 1..Len(visited[t]) :
                        visited[t][i] = visited[t][j] => i = j)
    /\ [][\A t \in Tasks :
            (pc[t] = "scan" /\ pc'[t] # "scan" /\ found'[t] # None) =>
                /\ found'[t][1] \notin Range(visited[t])
                /\ found'[t][1] \in owners[t]]_vars

\* Two lookups of an id that two guilds hold, each returning another guild.
TwoOwnersEitherFound ==
    \E t, u \in Tasks :
        /\ Finished(t, "find") /\ owners[t] = {41, 42} /\ found[t] = Some(41)
        /\ Finished(u, "find") /\ owners[u] = {41, 42} /\ found[u] = Some(42)

\* C13: two lookups of the same id need not agree. Each returns what the
\* cache held when it took the guard, so they differ when the cache
\* collaborator changed the owners of the id between the two guards (or
\* when two guilds hold the id), and only then.
LookupsDifferBySnapshot ==
    \A t, u \in Tasks :
        (Looked(t) /\ Looked(u) /\ pre[t].id = pre[u].id /\ found[t] # found[u]) =>
            \/ owners[t] # owners[u]
            \/ Cardinality(owners[t]) >= 2

\* Two lookups of emoji 7 in flight together, between which the cache
\* collaborator moved the emoji: one returned guild 42, the other guild 41.
LookupsSawDifferentOwners ==
    \E t, u \in Tasks :
        /\ Finished(t, "find") /\ emoji[t].id = 7
        /\ Finished(u, "find") /\ emoji[u].id = 7
        /\ owners[t] = {42} /\ found[t] = Some(42)
        /\ owners[u] = {41} /\ found[u] = Some(41)

\* Two lookups of emoji 7 in flight together, one of which found guild 42
\* while the other, after the collaborator dropped the emoji, found none.
LookupFoundOtherMissed ==
    \E t, u \in Tasks :
        /\ Looked(t) /\ Looked(u) /\ pre[t].id = 7 /\ pre[u].id = 7
        /\ found[t] = Some(42)
        /\ found[u] = None
        /\ 42 \in DOMAIN guilds

\* C14: a lookup holds the read guard of the guild map from the moment it
\* is granted until the lookup returns, so the map does not change under
\* the scan and the value returned is the lookup's value on the map as it
\* is at the return (never None while a guild holds the id); a second
\* lookup is granted the guard while the first one scans.
ScanUnderReadGuard ==
    /\ [](/\ readers = {t \in Tasks : pc[t] = "scan"}
          /\ writer => readers = {}
          /\ \A t \in Tasks :
                /\ pc[t] = "scan" => owners[t] = Owners(guilds, emoji[t].id)
                /\ (pc[t] = "read" /\ ~writer) => ENABLED guilds_read(t))
    /\ [][\A t \in Tasks :
            pc[t] = "scan" =>
                /\ guilds' = guilds
                /\ pc'[t] # "scan" =>
                      /\ t \notin readers'
                      /\ found'[t] = None => Owners(guilds, emoji[t].id) = {}
                      /\ found'[t] # None =>
                            found'[t][1] \in Owners(guilds, emoji[t].id)]_vars

\* Both tasks hold the read guard in the middle of their scans.
TwoScansTogether ==
    /\ readers = Tasks
    /\ \A t \in Tasks : pc[t] = "scan" /\ Len(visited[t]) = 1

\* C15: delete and edit hold no lock once the lookup has returned: while
\* the match is taken and while the gateway call is outstanding the task is
\* not a reader, the cache collaborator can take the write guard, and the
\* other task's lookup and request are not held up. The guild sent to the
\* gateway is one that held the id when the lookup took its guard.
GatewayCallWithoutLock ==
    \A t \in Tasks :
        pc[t] \in {"matched", "http"} =>
            /\ t \notin readers
            /\ pc[t] = "http" =>
                  /\ http[t][Len(http[t])].guild_id \in owners[t]
                  /\ http[t][Len(http[t])].guild_id = found[t][1]
            /\ (~writer /\ \A u \in Tasks : pc[u] # "scan") => ENABLED cache_write
            /\ \A u \in Tasks \ {t} :
                  /\ (pc[u] = "read" /\ ~writer) => ENABLED guilds_read(u)
                  /\ pc[u] = "matched" => ENABLED (delete_match(u) \/ edit_match(u))
                  /\ pc[u] = "http" => ENABLED (delete_emoji(u) \/ edit_emoji(u))

\* A delete of emoji 7 is outstanding at the gateway for guild 42, which the
\* cache collaborator has meanwhile emptied, while the other task scans
\* under the read guard.
StaleOwnerInFlight ==
    \E t \in Tasks :
        /\ pc[t] = "http" /\ op[t] = "delete"
        /\ http[t][1].guild_id = 42
        /\ 42 \notin Owners(guilds, 7)
        /\ \E u \in Tasks \ {t} : pc[u] = "scan" /\ u \in readers /\ emoji[u].id = 7

\* C16: the record keeps no trace of a delete. When the previous invocation
\* on the record was a delete the gateway accepted and a guild's map still
\* holds the id at the next edit or delete, that invocation resolves an
\* owner, sends one request and hands back the gateway's outcome, never a
\* local ItemMissing; a delete never changes the record.
DeletedRecordStillRequests ==
    /\ [](\A t \in Tasks :
            (last[t] = "deleted" /\ op[t] \in {"delete", "edit"}
                /\ Looked(t) /\ owners[t] # {}) =>
                /\ found[t] # None
                /\ pc[t] \in {"http", "done"} =>
                      /\ Len(http[t]) = 1
                      /\ http[t][1].guild_id \in owners[t]
                      /\ http[t][1].emoji_id = pre[t].id
                /\ pc[t] = "done" =>
                      /\ result[t] # ItemMissing
                      /\ result[t] = IF reply[t].kind = "err"
                                         THEN reply[t].err ELSE "Ok")
    /\ [][\A t \in Tasks : op[t] = "delete" => emoji'[t] = emoji[t]]_vars

\* A second delete of the same record, issued while guild 42 still caches
\* the emoji, was sent to the gateway and accepted again.
DeletedTwice ==
    \E t \in Tasks :
        /\ last[t] = "deleted"
        /\ Finished(t, "delete") /\ result[t] = "Ok"
        /\ owners[t] = {42} /\ Len(http[t]) = 1

\* C17: an Err(ItemMissing) leaves nothing behind. The failed invocation
\* changed neither the record nor the lock and sent nothing, and the
\* outcome of every edit or delete is fixed by the cache it was given, the
\* owners its own lookup saw and the gateway's answer, whatever the previous
\* invocation returned: after an ItemMissing, an invocation that has the
\* cache and finds an owner sends its request.
ItemMissingRecoverable ==
    /\ [](\A t \in Tasks :
            /\ (op[t] \in {"delete", "edit"} /\ pc[t] = "done") =>
                  /\ result[t] = IF ~cache[t] \/ owners[t] = {} THEN ItemMissing
                                 ELSE IF reply[t].kind = "err" THEN reply[t].err
                                 ELSE "Ok"
                  /\ result[t] = ItemMissing =>
                        /\ emoji[t] = pre[t]
                        /\ http[t] = <<>>
                        /\ t \notin readers
            /\ (last[t] = "missing" /\ op[t] \in {"delete", "edit"}
                  /\ Looked(t) /\ owners[t] # {}) =>
                  /\ found[t] # None /\ found[t][1] \in owners[t]
                  /\ pc[t] # "matched" =>
                        /\ Len(http[t]) = 1
                        /\ http[t][1].guild_id = found[t][1])
    /\ [][\A t \in Tasks :
            (pc[t] = "idle" /\ pc'[t] # "idle") =>
                /\ cache'[t] => pc'[t] = "read"
                /\ ~cache'[t] => (pc'[t] = "done" /\ result'[t] = ItemMissing)]_vars

\* An edit that follows an Err(ItemMissing) on the same record found guild
\* 42, was accepted by the gateway and renamed the record.
EditAfterItemMissing ==
    \E t \in Tasks :
        /\ last[t] = "missing"
        /\ Finished(t, "edit") /\ result[t] = "Ok"
        /\ owners[t] = {42} /\ Len(http[t]) = 1
        /\ emoji[t].name = blobcry

\* C18: every invocation of find_guild_id, delete and edit returns, given
\* that the read guard is granted fairly, writers give the lock back and the
\* gateway answers. The scan takes at most one turn per cached guild, and a
\* task waits only for the read guard and for the gateway: everywhere else
\* its next step can be taken.
EveryInvocationReturns ==
    /\ [](\A t \in Tasks :
            /\ Len(visited[t]) <= Cardinality(GuildIds)
            /\ pc[t] = "scan" => ENABLED (scan_next(t) \/ scan_end(t))
            /\ pc[t] = "matched" => ENABLED (delete_match(t) \/ edit_match(t))
            /\ pc[t] = "http" => Len(http[t]) = 1)
    /\ \A t \in Tasks : (pc[t] # "idle") ~> (pc[t] = "done")

\* Both invocations have returned: a lookup that went through every cached
\* guild without a match, and an edit that waited for the gateway's answer.
ScanAndGatewayReturned ==
    \E t, u \in Tasks :
        /\ Finished(t, "find") /\ found[t] = None /\ owners[t] = {}
        /\ DOMAIN guilds = GuildIds
        /\ Finished(u, "edit") /\ reply[u] # NoReply

====
